---- MODULE Spec2Model ----
(***************************************************************************)
(* Tradux translation-file synchronisation: the structural diff / merge /  *)
(* prune functions of core/translator.js and the update flow that drives   *)
(* them for one language.                                                  *)
(*                                                                         *)
(* Strings that take part in a key path are modelled by what               *)
(* String.prototype.split('.') returns for them: the non-empty sequence of *)
(* their dot-free segments.  "a" is <<"a">>, "a.b" is <<"a","b">> and the  *)
(* empty string is <<"">>.  An object key is such a string, a key path is  *)
(* such a string, and `${path}.${key}` is the concatenation of the two     *)
(* sequences, so that joining and splitting is the lossy conversion the    *)
(* code performs, not the identity.                                        *)
(*                                                                         *)
(* A translation tree is a function from a finite set of keys to nodes; a  *)
(* node is [leaf |-> string] or [tree |-> translation tree].               *)
(***************************************************************************)
EXTENDS Integers, Sequences, FiniteSets, TLC

\* ------------------------------------------------------------------ bounds
\* total number of keys (at all depths) of the two trees handed to a diff or
\* a merge
MaxPairNodes == 4
\* number of keys of the tree handed to removeObsoleteKeys with a free path
\* list, and total number of keys of the source and target of an update run
MaxTreeNodes == 3
\* number of dotted paths in a path list handed to removeObsoleteKeys
MaxPaths == 2
\* number of segments of such a dotted path
MaxPathLen == 3
\* number of update runs of the language
MaxRuns == 2

\* ------------------------------------------------------------ data model
\* dot-free key segments
Atoms == {"a", "b"}
\* object keys: "a", "b" and the flat dotted key "a.b"
Keys == {<<"a">>, <<"b">>, <<"a", "b">>}
\* the empty string, default value of the `path` parameter
EmptyStr == <<"">>
\* leaf text of the base language, of an existing translation, of a fresh
\* translation returned by the worker
SrcText == "1"
OldText == "x"
NewText == "t"

EmptyTree == [k \in {} |-> [leaf |-> ""]]
Leaf(v) == [leaf |-> v]
Tree(t) == [tree |-> t]
\* typeof v === 'object' && v !== null
IsTree(node) == DOMAIN node = {"tree"}

\* number of keys of a tree, at all depths
RECURSIVE Size(_)
Size(t) ==
    IF DOMAIN t = {} THEN 0
    ELSE LET k == CHOOSE x \in DOMAIN t : TRUE
             rest == [x \in DOMAIN t \ {k} |-> t[x]]
         IN 1 + (IF IsTree(t[k]) THEN Size(t[k].tree) ELSE 0) + Size(rest)

\* the trees over `keys` with exactly n keys in all, every leaf being v;
\* sub[m + 1] is the set of all trees with exactly m keys, for m < n
RECURSIVE TreesExact(_, _, _, _)
TreesExact(keys, n, sub, v) ==
    IF keys = {} THEN (IF n = 0 THEN {EmptyTree} ELSE {})
    ELSE LET k == CHOOSE x \in keys : TRUE
             others == keys \ {k}
             NodesOf(s) == (IF s = 1 THEN {Leaf(v)} ELSE {})
                           \cup {Tree(t) : t \in sub[s]}
         IN TreesExact(others, n, sub, v)
            \cup UNION {
                 { [x \in DOMAIN rest \cup {k} |-> IF x = k THEN nd ELSE rest[x]] :
                     nd \in NodesOf(s), rest \in TreesExact(others, n - s, sub, v) } :
                 s \in 1..n }

\* <<the trees with 0 keys, ..., the trees with n keys>>
RECURSIVE TreesBySize(_, _)
TreesBySize(n, v) ==
    IF n = 0 THEN <<{EmptyTree}>>
    ELSE LET sub == TreesBySize(n - 1, v)
         IN Append(sub, TreesExact(Keys, n, sub, v))

\* the tree t with every leaf text replaced by v
RECURSIVE Relabel(_, _)
Relabel(t, v) ==
    [k \in DOMAIN t |-> IF IsTree(t[k]) THEN Tree(Relabel(t[k].tree, v)) ELSE Leaf(v)]


\* the trees of the base language, the existing target trees and the trees of
\* fresh translations, by their largest number of keys
MaxNodes == IF MaxPairNodes > MaxTreeNodes THEN MaxPairNodes ELSE MaxTreeNodes
SourceTrees ==
    LET by == TreesBySize(MaxNodes, SrcText)
    IN [n \in 0..MaxNodes |-> UNION {by[i] : i \in 1..(n + 1)}]
TargetTrees == [n \in 0..MaxNodes |-> {Relabel(t, OldText) : t \in SourceTrees[n]}]
OverlayTrees == [n \in 0..MaxNodes |-> {Relabel(t, NewText) : t \in SourceTrees[n]}]

\* enumeration orders of the keys of an object (for ... in)
KeyOrders ==
    {o \in [1..Cardinality(Keys) -> Keys] : \A i, j \in DOMAIN o : i # j => o[i] # o[j]}

\* Object.keys(t) in enumeration order ord
KeysOf(t, ord) == SelectSeq(ord, LAMBDA k : k \in DOMAIN t)

\* `${path}.${key}`, or key alone when path is the empty string
JoinPath(path, key) == IF path = EmptyStr THEN key ELSE path \o key

\* t without key k
Without(t, k) == [x \in DOMAIN t \ {k} |-> t[x]]
\* t with key k set to node nd
With(t, k, nd) == [x \in DOMAIN t \cup {k} |-> IF x = k THEN nd ELSE t[x]]

\* ------------------------------------------------------- findMissingContent
RECURSIVE findMissingContent(_, _, _)
\* variant: a key that is a leaf on both sides is reported missing
findMissingContentLeafDiff(source, target, path) ==
    LET Nested(k) == findMissingContent(source[k].tree, target[k].tree, JoinPath(path, k))
        IsMissing(k) ==
            IF k \notin DOMAIN target THEN TRUE
            ELSE IF IsTree(source[k])
                 THEN IF IsTree(target[k]) THEN Nested(k) # EmptyTree ELSE TRUE
                 ELSE ~IsTree(target[k])
        Value(k) ==
            IF k \notin DOMAIN target THEN source[k]
            ELSE IF IsTree(source[k]) /\ IsTree(target[k]) THEN Tree(Nested(k))
                 ELSE source[k]
    IN [k \in {x \in DOMAIN source : IsMissing(x)} |-> Value(k)]

\* variant: a source tree over a target leaf is not reported missing
findMissingContentNoMismatch(source, target, path) ==
    LET Nested(k) == findMissingContent(source[k].tree, target[k].tree, JoinPath(path, k))
        IsMissing(k) ==
            IF k \notin DOMAIN target THEN TRUE
            ELSE IF IsTree(source[k])
                 THEN IF IsTree(target[k]) THEN Nested(k) # EmptyTree ELSE FALSE
                 ELSE FALSE
        Value(k) ==
            IF k \notin DOMAIN target THEN source[k]
            ELSE IF IsTree(source[k]) /\ IsTree(target[k]) THEN Tree(Nested(k))
                 ELSE source[k]
    IN [k \in {x \in DOMAIN source : IsMissing(x)} |-> Value(k)]

findMissingContent(source, target, path) ==
    LET Nested(k) == findMissingContent(source[k].tree, target[k].tree, JoinPath(path, k))
        IsMissing(k) ==
            IF k \notin DOMAIN target THEN TRUE
            ELSE IF IsTree(source[k])
                 THEN IF IsTree(target[k]) THEN Nested(k) # EmptyTree ELSE TRUE
                 ELSE FALSE
        Value(k) ==
            IF k \notin DOMAIN target THEN source[k]
            ELSE IF IsTree(source[k]) /\ IsTree(target[k]) THEN Tree(Nested(k))
                 ELSE source[k]
    IN [k \in {x \in DOMAIN source : IsMissing(x)} |-> Value(k)]

\* ---------------------------------------------------------------- deepMerge
RECURSIVE deepMerge(_, _)
\* variant: a shallow merge, the overlay's subtree replaces the base's
deepMergeShallow(target, source) ==
    [k \in DOMAIN target \cup DOMAIN source |->
        IF k \in DOMAIN source THEN source[k] ELSE target[k]]

deepMerge(target, source) ==
    LET Merged(k) ==
            IF IsTree(source[k])
            THEN IF k \in DOMAIN target /\ IsTree(target[k])
                 THEN Tree(deepMerge(target[k].tree, source[k].tree))
                 ELSE source[k]
            ELSE source[k]
    IN [k \in DOMAIN target \cup DOMAIN source |->
            IF k \in DOMAIN source THEN Merged(k) ELSE target[k]]

\* ------------------------------------------------------ findObsoleteContent
RECURSIVE findObsoleteContent(_, _, _, _)
RECURSIVE ObsoleteLoop(_, _, _, _, _)
\* variant: a target tree over a source leaf is not reported obsolete
ObsoleteLoopNoMismatch(source, target, path, ord, ks) ==
    IF ks = <<>> THEN <<>>
    ELSE LET key == Head(ks)
             currentPath == JoinPath(path, key)
             here ==
                 IF key \notin DOMAIN source THEN <<currentPath>>
                 ELSE IF IsTree(target[key]) /\ IsTree(source[key])
                      THEN findObsoleteContent(source[key].tree, target[key].tree,
                                               currentPath, ord)
                      ELSE <<>>
         IN here \o ObsoleteLoop(source, target, path, ord, Tail(ks))

\* the for ... in loop over the keys ks of target still to visit
ObsoleteLoop(source, target, path, ord, ks) ==
    IF ks = <<>> THEN <<>>
    ELSE LET key == Head(ks)
             currentPath == JoinPath(path, key)
             here ==
                 IF key \notin DOMAIN source THEN <<currentPath>>
                 ELSE IF IsTree(target[key])
                      THEN IF IsTree(source[key])
                           THEN findObsoleteContent(source[key].tree, target[key].tree,
                                                    currentPath, ord)
                           ELSE <<currentPath>>
                      ELSE <<>>
         IN here \o ObsoleteLoop(source, target, path, ord, Tail(ks))

findObsoleteContent(source, target, path, ord) ==
    ObsoleteLoop(source, target, path, ord, KeysOf(target, ord))

\* ------------------------------------------------------- removeObsoleteKeys
\* one iteration of the outer loop: the walk along keys = keyPath.split('.')
\* from object `current`, then the delete of the final key from the object the
\* walk stopped at
RECURSIVE RemovePath(_, _)
RemovePath(current, keys) ==
    LET finalKey == <<keys[Len(keys)]>>
        step == <<Head(keys)>>
    IN IF Len(keys) > 1 /\ step \in DOMAIN current /\ IsTree(current[step])
       THEN With(current, step, Tree(RemovePath(current[step].tree, Tail(keys))))
       ELSE \* end of the walk, or break: `current` stays where the walk stopped
            IF finalKey \in DOMAIN current THEN Without(current, finalKey) ELSE current

RECURSIVE removeObsoleteKeys(_, _)
removeObsoleteKeys(data, obsoleteKeys) ==
    IF obsoleteKeys = <<>> THEN data
    ELSE removeObsoleteKeys(RemovePath(data, Head(obsoleteKeys)), Tail(obsoleteKeys))

\* same keys and same leaf/tree kinds at every depth
RECURSIVE SameShape(_, _)
SameShape(t1, t2) ==
    /\ DOMAIN t1 = DOMAIN t2
    /\ \A k \in DOMAIN t1 :
          /\ IsTree(t1[k]) = IsTree(t2[k])
          /\ IsTree(t1[k]) => SameShape(t1[k].tree, t2[k].tree)

\* ------------------------------------------------------------------ state
VARIABLES
    pc,             \* position of the run: "idle", "fetch", "write", "done";
                    \* in the function specifications the function last applied
    flow,           \* "none", or the function the run is in: "update" once the
                    \* existing tree is loaded, "create" in translateLanguage
    run,            \* number of update runs started for the language
    file,           \* the language's file: [exists, loadable, data]
    sourceData,     \* the tree of the default language
    existingData,   \* the target tree loaded at the start of the run
    missingContent, \* findMissingContent(sourceData, existingData)
    obsoleteKeys,   \* findObsoleteContent(sourceData, existingData)
    updatedData,    \* the tree being built, written at the end of the run
    request,        \* [sent, data]: the body handed to fetch in this run
    response,       \* [status, hasData, data]: what fetch resolved to
    outcome,        \* what the run reported for the language
    log,            \* per finished run: [outcome, sent, shaped, before, after]
    keyPaths,       \* a free list of dotted paths (removeObsoleteKeys)
    overlay,        \* a free overlay tree (deepMerge)
    result          \* result of the function applied second

\* the state of a batch (translateFiles, updateLanguageFiles, removeLanguageFiles)
VARIABLES
    files,              \* the i18n directory: file name -> [exists, loadable, data]
    kind,               \* "none", or the command of the batch: "translate", "update", "remove"
    languages,          \* the list handed to the batch, as languages.split(',') reads it
    remaining,          \* the languages the for loop has still to visit
    lang,               \* the language the loop is at
    filesCreated,       \* the accumulator read after the loop
    availableLanguages, \* config.availableLanguages
    refreshed,          \* updateConfigAvailableLanguages was called in this batch
    events,             \* per language the loop has left: what happened to it
    batches             \* number of batches started

batchVars == <<files, kind, languages, remaining, lang, filesCreated, availableLanguages,
               refreshed, events, batches>>

\* the state of the client module (initialize, setLanguage) and of its
\* environment
VARIABLES
    window,             \* typeof window !== 'undefined': the module runs in a browser
    localStorage,       \* the item 'tradux-language': a code, or NoItem
    configData,         \* defaultLanguage of the config file, "" when the file does
                        \* not name one, or NoConfig when the file does not load
    served,             \* code -> what loadLanguage(code) resolves to
    config,             \* config.defaultLanguage
    currentLanguage,
    translations,
    isInitialized,
    initPromise,        \* "null", "pending" or "fulfilled"
    initAt,             \* the await the async function of initialize is at
    initRuns,           \* number of times that async function was started
    translationTarget,  \* the target of the proxy t, and the value of tStore
    callers,            \* caller -> its call of setLanguage or getAvailableLanguages
    switches,           \* per returned load of setLanguage: what it did
    notified            \* the calls of the language change listener

clientVars == <<window, localStorage, configData, served, config, currentLanguage,
                translations, isInitialized, initPromise, initAt, initRuns,
                translationTarget, callers, switches, notified>>

\* the state of one call of the worker's translateObject
VARIABLES
    obj,                \* the tree handed to translateObject
    upstream,           \* path of a string of obj -> what the model API does with it
    translatedData      \* the value returned

workerVars == <<obj, upstream, translatedData>>

vars == <<pc, flow, run, file, sourceData, existingData, missingContent, obsoleteKeys,
          updatedData, request, response, outcome, log, keyPaths, overlay, result,
          files, kind, languages, remaining, lang, filesCreated, availableLanguages,
          refreshed, events, batches, clientVars, workerVars>>

NoRequest == [sent |-> FALSE, data |-> EmptyTree]
NoResponse == [status |-> "none", hasData |-> FALSE, data |-> EmptyTree]
Absent == [exists |-> FALSE, loadable |-> FALSE, data |-> EmptyTree]
Unloadable == [exists |-> TRUE, loadable |-> FALSE, data |-> EmptyTree]
Stored(t) == [exists |-> TRUE, loadable |-> TRUE, data |-> t]

\* translatedData of answers that ignore the payload
UnshapedAnswers == {EmptyTree, (<<"a">> :> Leaf(NewText))}

\* what the remote translator can answer to a payload: a 2xx response whose
\* translatedData has the payload's shape (every string translated, or every
\* string echoed), a 2xx response with some other tree, a 2xx response without
\* translatedData, a non-2xx status, a rejected fetch
Responses(payload) ==
    { [status |-> "ok", hasData |-> TRUE, data |-> d] :
        d \in {Relabel(payload, NewText), payload} \cup UnshapedAnswers }
    \cup { [status |-> "ok", hasData |-> FALSE, data |-> EmptyTree],
           [status |-> "http_error", hasData |-> FALSE, data |-> EmptyTree],
           [status |-> "network_error", hasData |-> FALSE, data |-> EmptyTree] }

\* ------------------------------------------------------------ update flow
InitLocals ==
    /\ flow = "none"
    /\ existingData = EmptyTree
    /\ missingContent = EmptyTree
    /\ obsoleteKeys = <<>>
    /\ updatedData = EmptyTree
    /\ request = NoRequest
    /\ response = NoResponse
    /\ outcome = "none"
    /\ keyPaths = <<>>
    /\ overlay = EmptyTree
    /\ result = EmptyTree

\* null as the value of loadLanguage and of translations, and a tree as such
\* a value
Null == [ok |-> FALSE, data |-> EmptyTree]
Loaded(t) == [ok |-> TRUE, data |-> t]
\* localStorage.getItem returns null
NoItem == "null"
\* the config file does not load
NoConfig == "null"

\* no client module is modelled
NoClient ==
    /\ window = FALSE
    /\ localStorage = NoItem
    /\ configData = NoConfig
    /\ served = <<>>
    /\ config = "en"
    /\ currentLanguage = "en"
    /\ translations = Loaded(EmptyTree)
    /\ isInitialized = FALSE
    /\ initPromise = "null"
    /\ initAt = "none"
    /\ initRuns = 0
    /\ translationTarget = EmptyTree
    /\ callers = <<>>
    /\ switches = <<>>
    /\ notified = <<>>

\* no call of the worker is modelled
NoWorker ==
    /\ obj = EmptyTree
    /\ upstream = <<>>
    /\ translatedData = EmptyTree

\* no batch is modelled: one language (Spec) or one function call (SpecFn,
\* SpecPrune) is
NoBatch ==
    /\ files = <<>>
    /\ kind = "none"
    /\ languages = <<>>
    /\ remaining = <<>>
    /\ lang = ""
    /\ filesCreated = FALSE
    /\ availableLanguages = <<>>
    /\ refreshed = FALSE
    /\ events = <<>>
    /\ batches = 0

Init ==
    /\ pc = "idle"
    /\ run = 0
    /\ log = <<>>
    /\ sourceData \in SourceTrees[MaxTreeNodes]
    /\ file \in {Absent, Unloadable}
          \cup {Stored(t) : t \in TargetTrees[MaxTreeNodes - Size(sourceData)]}
    /\ InitLocals
    /\ NoBatch
    /\ NoClient
    /\ NoWorker

\* the end of a run: the outcome is reported and logged
Finish(o, f, req, resp) ==
    /\ pc' = "done"
    /\ outcome' = o
    /\ file' = f
    /\ log' = Append(log, [outcome |-> o, sent |-> req.sent,
                           shaped |-> /\ req.sent
                                      /\ resp.status = "ok"
                                      /\ resp.hasData
                                      /\ SameShape(resp.data, req.data),
                           before |-> file, after |-> f])

\* variant: the whole source tree is sent
RequestBodyAllOfSource(data) == sourceData

\* variant: an empty tree is sent
RequestBodyOfNothing(data) == EmptyTree

\* the `data` of the body handed to fetch
RequestBody(data) == data

\* variant: the removal step is skipped
PrunedDataKeepsAll(existing, obsolete) == existing

\* updatedData after the removal step of updateLanguage
PrunedData(existing, obsolete) ==
    IF obsolete # <<>> THEN removeObsoleteKeys(existing, obsolete) ELSE existing

\* updatedData after the merge step of updateLanguage; result.translatedData
\* is undefined when the body has no such field, and for (key in undefined)
\* does not iterate
MergedData(updated, r) ==
    IF r.hasData THEN deepMerge(updated, r.data) ELSE deepMerge(updated, EmptyTree)

\* translateLanguage up to its await of fetch
translateLanguage ==
    /\ flow' = "create"
    /\ IF file.exists
       THEN /\ UNCHANGED <<request, response>>
            /\ Finish("skipped", file, request, response)
       ELSE /\ request' = [sent |-> TRUE, data |-> RequestBody(sourceData)]
            /\ pc' = "fetch"
            /\ UNCHANGED <<response, outcome, file, log>>

\* updateLanguage up to its first await of fetch or of fs.writeFile
updateLanguage ==
    /\ UNCHANGED <<batchVars, clientVars, workerVars>>
    /\ pc = "idle"
    /\ run < MaxRuns
    /\ run' = run + 1
    /\ UNCHANGED <<sourceData, keyPaths, overlay, result>>
    /\ IF ~file.exists \/ ~file.loadable
       THEN /\ translateLanguage
            /\ UNCHANGED <<existingData, missingContent, obsoleteKeys, updatedData>>
       ELSE \E ord \in KeyOrders :
            LET missing == findMissingContent(sourceData, file.data, EmptyStr)
                obsolete == findObsoleteContent(sourceData, file.data, EmptyStr, ord)
                hasMissingContent == missing # EmptyTree
                hasObsoleteContent == obsolete # <<>>
                pruned == PrunedData(file.data, obsolete)
            IN /\ existingData' = file.data
               /\ missingContent' = missing
               /\ obsoleteKeys' = obsolete
               /\ flow' = "update"
               /\ UNCHANGED response
               /\ IF ~hasMissingContent /\ ~hasObsoleteContent
                  THEN /\ UNCHANGED <<updatedData, request>>
                       /\ Finish("uptodate", file, request, response)
                  ELSE /\ updatedData' = pruned
                       /\ UNCHANGED <<outcome, file, log>>
                       /\ IF hasMissingContent
                          THEN /\ request' = [sent |-> TRUE, data |-> RequestBody(missing)]
                               /\ pc' = "fetch"
                          ELSE /\ UNCHANGED request
                               /\ pc' = "write"

\* variant: the catch persists the tree pruned in memory
PersistsPruned(f, data) == Stored(data)

\* the file after the catch of updateLanguage: nothing is written
AfterFailedCall(f, data) == f

\* updateLanguage from the resolution of fetch to the await of fs.writeFile
UpdateFetchReturns ==
    /\ UNCHANGED <<batchVars, clientVars, workerVars>>
    /\ pc = "fetch" /\ flow = "update"
    /\ \E r \in Responses(request.data) :
         /\ response' = r
         /\ IF r.status = "ok"
            THEN /\ updatedData' = MergedData(updatedData, r)
                 /\ pc' = "write"
                 /\ UNCHANGED <<outcome, file, log>>
            ELSE /\ UNCHANGED updatedData
                 /\ Finish("failed", AfterFailedCall(file, updatedData), request, r)
    /\ UNCHANGED <<flow, run, sourceData, existingData, missingContent, obsoleteKeys,
                   request, keyPaths, overlay, result>>

\* fs.writeFile(targetFile, JSON.stringify(updatedData)) resolves or rejects
UpdateWriteReturns ==
    /\ UNCHANGED <<batchVars, clientVars, workerVars>>
    /\ pc = "write" /\ flow = "update"
    /\ \E written \in BOOLEAN :
         IF written THEN Finish("updated", Stored(updatedData), request, response)
         ELSE Finish("failed", file, request, response)
    /\ UNCHANGED <<flow, run, sourceData, existingData, missingContent, obsoleteKeys,
                   updatedData, request, response, keyPaths, overlay, result>>

\* translateLanguage from the resolution of fetch to its return; a response
\* without translatedData makes JSON.stringify return undefined, which
\* fs.writeFile rejects
CreateFetchReturns ==
    /\ UNCHANGED <<batchVars, clientVars, workerVars>>
    /\ pc = "fetch" /\ flow = "create"
    /\ \E r \in Responses(request.data), written \in BOOLEAN :
         /\ response' = r
         /\ IF r.status = "ok" /\ r.hasData /\ written
            THEN Finish("created", Stored(r.data), request, r)
            ELSE Finish("failed", file, request, r)
    /\ UNCHANGED <<flow, run, sourceData, existingData, missingContent, obsoleteKeys,
                   updatedData, request, keyPaths, overlay, result>>

\* the next update run of the same language against the same source
NextRun ==
    /\ UNCHANGED <<batchVars, clientVars, workerVars>>
    /\ pc = "done"
    /\ run < MaxRuns
    /\ pc' = "idle"
    /\ flow' = "none"
    /\ existingData' = EmptyTree
    /\ missingContent' = EmptyTree
    /\ obsoleteKeys' = <<>>
    /\ updatedData' = EmptyTree
    /\ request' = NoRequest
    /\ response' = NoResponse
    /\ outcome' = "none"
    /\ UNCHANGED <<run, file, sourceData, log, keyPaths, overlay, result>>

Next ==
    \/ updateLanguage
    \/ UpdateFetchReturns
    \/ UpdateWriteReturns
    \/ CreateFetchReturns
    \/ NextRun

Spec == Init /\ [][Next]_vars


\* ------------------------------------------- the diff and merge functions
\* the functions applied to free arguments: nothing is loaded or persisted
InitFn ==
    /\ pc = "fn"
    /\ run = 0
    /\ log = <<>>
    /\ file = Absent
    /\ sourceData = EmptyTree
    /\ InitLocals
    /\ NoBatch
    /\ NoClient
    /\ NoWorker

\* findMissingContent(S, T) and findObsoleteContent(S, T)
ApplyDiff ==
    /\ UNCHANGED <<batchVars, clientVars, workerVars>>
    /\ pc = "fn"
    /\ \E S \in SourceTrees[MaxPairNodes] :
       \E T \in TargetTrees[MaxPairNodes - Size(S)], ord \in KeyOrders :
         /\ sourceData' = S
         /\ existingData' = T
         /\ missingContent' = findMissingContent(S, T, EmptyStr)
         /\ obsoleteKeys' = findObsoleteContent(S, T, EmptyStr, ord)
    /\ pc' = "diffed"
    /\ UNCHANGED <<flow, run, file, updatedData, request, response, outcome, log,
                   keyPaths, overlay, result>>

\* findMissingContent(S, S) and findObsoleteContent(S, S)
ApplySelfDiff ==
    /\ UNCHANGED <<batchVars, clientVars, workerVars>>
    /\ pc = "fn"
    /\ \E S \in SourceTrees[MaxPairNodes], ord \in KeyOrders :
         /\ sourceData' = S
         /\ existingData' = S
         /\ missingContent' = findMissingContent(S, S, EmptyStr)
         /\ obsoleteKeys' = findObsoleteContent(S, S, EmptyStr, ord)
    /\ pc' = "selfdiffed"
    /\ UNCHANGED <<flow, run, file, updatedData, request, response, outcome, log,
                   keyPaths, overlay, result>>

\* removeObsoleteKeys(T, findObsoleteContent(S, T))
ApplyPrune ==
    /\ UNCHANGED <<batchVars, clientVars, workerVars>>
    /\ pc = "diffed"
    /\ updatedData' = removeObsoleteKeys(existingData, obsoleteKeys)
    /\ pc' = "pruned"
    /\ UNCHANGED <<flow, run, file, sourceData, existingData, missingContent,
                   obsoleteKeys, request, response, outcome, log, keyPaths, overlay,
                   result>>

\* deepMerge(T, M)
ApplyMerge ==
    /\ UNCHANGED <<batchVars, clientVars, workerVars>>
    /\ pc = "fn"
    /\ \E T \in TargetTrees[MaxPairNodes] :
       \E M \in OverlayTrees[MaxPairNodes - Size(T)] :
         /\ existingData' = T
         /\ overlay' = M
         /\ result' = deepMerge(T, M)
    /\ pc' = "merged"
    /\ UNCHANGED <<flow, run, file, sourceData, missingContent, obsoleteKeys,
                   updatedData, request, response, outcome, log, keyPaths>>

NextFn ==
    \/ ApplyDiff
    \/ ApplySelfDiff
    \/ ApplyPrune
    \/ ApplyMerge

SpecFn == InitFn /\ [][NextFn]_vars

\* --------------------------------------- removeObsoleteKeys on free paths
\* the dotted paths: keyPath.split('.') has 1..MaxPathLen segments
Paths == UNION {[1..n -> Atoms] : n \in 1..MaxPathLen}
PathLists == UNION {[1..n -> Paths] : n \in 0..MaxPaths}

\* removeObsoleteKeys(T, P)
ApplyRemove ==
    /\ UNCHANGED <<batchVars, clientVars, workerVars>>
    /\ pc = "fn"
    /\ \E T \in TargetTrees[MaxTreeNodes], P \in PathLists :
         /\ existingData' = T
         /\ keyPaths' = P
         /\ updatedData' = removeObsoleteKeys(T, P)
    /\ pc' = "removed"
    /\ UNCHANGED <<flow, run, file, sourceData, missingContent, obsoleteKeys,
                   request, response, outcome, log, overlay, result>>

\* removeObsoleteKeys(removeObsoleteKeys(T, P), P)
ApplyRemoveAgain ==
    /\ UNCHANGED <<batchVars, clientVars, workerVars>>
    /\ pc = "removed"
    /\ result' = removeObsoleteKeys(updatedData, keyPaths)
    /\ pc' = "removedAgain"
    /\ UNCHANGED <<flow, run, file, sourceData, existingData, missingContent,
                   obsoleteKeys, updatedData, request, response, outcome, log,
                   keyPaths, overlay>>

NextPrune ==
    \/ ApplyRemove
    \/ ApplyRemoveAgain

SpecPrune == InitFn /\ [][NextPrune]_vars


\* ---------------------------------------------------------------- batches
\* the translate, update and remove commands over an i18n directory with the
\* default language and two other languages

\* number of entries of the list handed to a batch
MaxListLen == 2
\* number of batches run one after the other on the same directory
MaxBatches == 2

\* config.defaultLanguage
DefaultLanguage == "en"
\* the names <name>.json the i18n directory can hold
FileNames == {"en", "es", "fr"}
\* what languages.split(',') can hold: plain codes, a padded code, the empty
\* string between two commas, a code with a path prefix
Tokens == {"en", "es", "fr", " es", "", "./en"}
TokenLists == UNION {[1..n -> Tokens] : n \in 1..MaxListLen} \ {<<"">>}

\* lang.trim()
Trim(token) == IF token = " es" THEN "es" ELSE token

\* the file name path.join(i18nAbsolutePath, `${lang}.json`) resolves to
FileOf(code) == IF code = "./en" THEN "en" ELSE code

\* the file of a language code in directory fs
FileIn(fs, code) == IF FileOf(code) \in DOMAIN fs THEN fs[FileOf(code)] ELSE Absent

\* languages.split(',').map(lang => lang.trim()).filter(Boolean)
parseLanguages(tokens) ==
    SelectSeq([i \in DOMAIN tokens |-> Trim(tokens[i])], LAMBDA code : code # "")

RECURSIVE UniqueFrom(_, _)
UniqueFrom(arr, seen) ==
    IF arr = <<>> THEN <<>>
    ELSE IF Head(arr) \in seen THEN UniqueFrom(Tail(arr), seen)
         ELSE <<Head(arr)>> \o UniqueFrom(Tail(arr), seen \cup {Head(arr)})

\* variant: the list is not de-duplicated
KeepsDuplicates(arr) == arr

\* [...new Set(languagesArray)]
UniqueLanguages(arr) == UniqueFrom(arr, {})

\* variant: a source file that exists is used even when it does not load
SourceLoadsIfExists(f) == f.exists

\* loadSourceFile returns instead of calling process.exit(1)
SourceLoads(f) == f.exists /\ f.loadable

\* variant: a target file that does not load counts as absent
TargetLoads(f) == f.exists /\ f.loadable

\* fileManager.exists(targetFile)
TargetExists(f) == f.exists

\* variant: the file is rewritten even when nothing differs
AlwaysRewrites(missing, obsolete) == FALSE

\* !hasMissingContent && !hasObsoleteContent
UpToDate(missing, obsolete) == missing = EmptyTree /\ obsolete = <<>>

\* variant: a failed language ends the loop
AbortsBatch(rest) == <<>>

\* the failed language put back at the head of the languages left
RetriesFailed(rest) == <<lang>> \o rest

\* the language after the failed one dropped from the languages left
SkipsNext(rest) == IF rest = <<>> THEN rest ELSE Tail(rest)

\* the languages the loop goes on with after the catch of a failed language
AfterFailure(rest) == rest

\* the trees of the batch: leaves only, over the keys a and b
LeafTree(keys, v) == [k \in keys |-> Leaf(v)]
BatchKeySets == {{<<"a">>}, {<<"a">>, <<"b">>}}
BatchSources == {LeafTree(ks, SrcText) : ks \in BatchKeySets}
BatchTargets == {LeafTree(ks, OldText) : ks \in BatchKeySets}

\* what the remote translator answers in a batch: every string translated,
\* a 2xx response without translatedData, a non-2xx status, a rejected fetch
BatchResponses(payload) ==
    {r \in Responses(payload) : r.hasData => r.data = Relabel(payload, NewText)}

\* the names of the files that exist in directory fs
ExistingLanguages(fs) == {n \in DOMAIN fs : fs[n].exists}

\* Array.prototype.sort on the names: the position of a code in the order of
\* its UTF-16 units
CodeRank == [n \in FileNames |-> IF n = "en" THEN 1 ELSE IF n = "es" THEN 2 ELSE 3]

\* the sorted list of the codes of a set
RECURSIVE SortedCodes(_)
SortedCodes(codes) ==
    IF codes = {} THEN <<>>
    ELSE LET first == CHOOSE n \in codes : \A m \in codes : CodeRank[n] <= CodeRank[m]
         IN <<first>> \o SortedCodes(codes \ {first})

\* the accumulator of the loop overwritten by the last language's value
LastCreated(before, created) == created

\* if (created) filesCreated = true
AnyCreated(before, created) == before \/ created

InitBatch ==
    /\ pc = "ready"
    /\ run = 0
    /\ log = <<>>
    /\ file = Absent
    /\ sourceData = EmptyTree
    /\ InitLocals
    /\ files \in [FileNames -> {Absent, Unloadable}
                                \cup {Stored(t) : t \in BatchSources \cup BatchTargets}]
    /\ files[DefaultLanguage] \in {Absent, Unloadable} \cup {Stored(t) : t \in BatchSources}
    /\ \A n \in FileNames \ {DefaultLanguage} :
          files[n] \in {Absent, Unloadable} \cup {Stored(t) : t \in BatchTargets}
    /\ kind = "none"
    /\ languages = <<>>
    /\ remaining = <<>>
    /\ lang = ""
    /\ filesCreated = FALSE
    /\ availableLanguages = SortedCodes(ExistingLanguages(files))
    /\ refreshed = FALSE
    /\ events = <<>>
    /\ batches = 0
    /\ NoClient
    /\ NoWorker

\* what the loop records when it leaves language l; write is "none", "done"
\* or "failed": what became of the fs.writeFile of the language's file
Event(l, o, req, resp, write, created, fs) ==
    [lang |-> l, outcome |-> o, sent |-> req.sent, payload |-> req.data,
     status |-> resp.status, hasData |-> resp.hasData, answer |-> resp.data,
     write |-> write, created |-> created,
     before |-> FileIn(files, l), after |-> FileIn(fs, l)]

\* the return of translateLanguage or updateLanguage to the loop: `created`
\* is the value returned, fs the directory it leaves
Leave(l, o, req, resp, write, created, fs) ==
    /\ events' = Append(events, Event(l, o, req, resp, write, created, fs))
    /\ files' = fs
    /\ filesCreated' = AnyCreated(filesCreated, created)
    /\ outcome' = o
    /\ pc' = "loop"

\* a new process runs a batch of command k on the list tokens
BatchStart(k, tokens) ==
    /\ pc = "ready"
    /\ UNCHANGED <<clientVars, workerVars>>
    /\ batches < MaxBatches
    /\ batches' = batches + 1
    /\ kind' = k
    /\ languages' = tokens
    /\ lang' = ""
    /\ flow' = "none"
    /\ outcome' = "none"
    /\ request' = NoRequest
    /\ response' = NoResponse
    /\ updatedData' = EmptyTree
    /\ UNCHANGED <<run, file, existingData, missingContent, obsoleteKeys, log,
                   keyPaths, overlay, result>>

\* translateFiles and updateLanguageFiles up to the for loop: the list is
\* parsed and de-duplicated, then loadSourceFile returns the source tree or
\* ends the process
LoadsSource(tokens) ==
    /\ remaining' = UniqueLanguages(parseLanguages(tokens))
    /\ events' = <<>>
    /\ filesCreated' = FALSE
    /\ refreshed' = FALSE
    /\ UNCHANGED <<files, availableLanguages>>
    /\ IF SourceLoads(files[DefaultLanguage])
       THEN /\ sourceData' = files[DefaultLanguage].data
            /\ pc' = "loop"
       ELSE /\ sourceData' = EmptyTree
            /\ pc' = "exited"

translateFiles ==
    /\ pc = "ready"
    /\ \E tokens \in TokenLists :
          /\ BatchStart("translate", tokens)
          /\ LoadsSource(tokens)

updateLanguageFiles ==
    /\ pc = "ready"
    /\ \E tokens \in TokenLists :
          /\ BatchStart("update", tokens)
          /\ LoadsSource(tokens)

\* translateLanguage(l) up to its await of fetch
TranslateLanguageBegins(l) ==
    /\ flow' = "create"
    /\ response' = NoResponse
    /\ UNCHANGED updatedData
    /\ IF TargetExists(FileIn(files, l))
       THEN /\ request' = NoRequest
            /\ Leave(l, "skipped", NoRequest, NoResponse, "none", FALSE, files)
       ELSE /\ request' = [sent |-> TRUE, data |-> RequestBody(sourceData)]
            /\ pc' = "fetch"
            /\ UNCHANGED <<events, files, filesCreated, outcome>>

\* updateLanguage(l) up to its first await of fetch or of fs.writeFile
UpdateLanguageBegins(l) ==
    IF ~TargetExists(FileIn(files, l)) \/ ~FileIn(files, l).loadable
    THEN TranslateLanguageBegins(l)
    ELSE \E ord \in KeyOrders :
         LET existing == FileIn(files, l).data
             missing == findMissingContent(sourceData, existing, EmptyStr)
             obsolete == findObsoleteContent(sourceData, existing, EmptyStr, ord)
         IN /\ flow' = "update"
            /\ response' = NoResponse
            /\ IF UpToDate(missing, obsolete)
               THEN /\ request' = NoRequest
                    /\ UNCHANGED updatedData
                    /\ Leave(l, "uptodate", NoRequest, NoResponse, "none", FALSE, files)
               ELSE /\ updatedData' = PrunedData(existing, obsolete)
                    /\ UNCHANGED <<events, files, filesCreated, outcome>>
                    /\ IF missing # EmptyTree
                       THEN /\ request' = [sent |-> TRUE, data |-> RequestBody(missing)]
                            /\ pc' = "fetch"
                       ELSE /\ request' = NoRequest
                            /\ pc' = "write"

\* one turn of the for loop of translateFiles
TranslateLoop ==
    /\ pc = "loop" /\ kind = "translate"
    /\ UNCHANGED <<clientVars, workerVars>>
    /\ remaining # <<>>
    /\ lang' = Head(remaining)
    /\ remaining' = Tail(remaining)
    /\ TranslateLanguageBegins(Head(remaining))
    /\ UNCHANGED <<run, file, sourceData, existingData, missingContent, obsoleteKeys,
                   log, keyPaths, overlay, result, kind, languages,
                   availableLanguages, refreshed, batches>>

\* one turn of the for loop of updateLanguageFiles
UpdateLoop ==
    /\ pc = "loop" /\ kind = "update"
    /\ UNCHANGED <<clientVars, workerVars>>
    /\ remaining # <<>>
    /\ lang' = Head(remaining)
    /\ remaining' = Tail(remaining)
    /\ IF Head(remaining) = DefaultLanguage
       THEN /\ flow' = "none"
            /\ request' = NoRequest
            /\ response' = NoResponse
            /\ UNCHANGED updatedData
            /\ Leave(Head(remaining), "skipped_default", NoRequest, NoResponse,
                     "none", FALSE, files)
       ELSE UpdateLanguageBegins(Head(remaining))
    /\ UNCHANGED <<run, file, sourceData, existingData, missingContent, obsoleteKeys,
                   log, keyPaths, overlay, result, kind, languages,
                   availableLanguages, refreshed, batches>>

\* fetch resolves or rejects for the language the loop is at; in the create
\* flow fs.writeFile follows in the same try block, and it rejects when it is
\* handed JSON.stringify(undefined)
LoopFetchReturns ==
    /\ pc = "fetch" /\ kind \in {"translate", "update"}
    /\ UNCHANGED <<clientVars, workerVars>>
    /\ \E r \in BatchResponses(request.data), written \in BOOLEAN :
         /\ response' = r
         /\ IF flow = "create"
            THEN /\ UNCHANGED updatedData
                 /\ IF r.status = "ok" /\ r.hasData /\ written
                    THEN /\ Leave(lang, "created", request, r, "done", TRUE,
                                  [files EXCEPT ![FileOf(lang)] = Stored(r.data)])
                         /\ UNCHANGED remaining
                    ELSE /\ Leave(lang, "failed", request, r,
                                  IF r.status = "ok" THEN "failed" ELSE "none",
                                  FALSE, files)
                         /\ remaining' = AfterFailure(remaining)
            ELSE IF r.status = "ok"
                 THEN /\ written
                      /\ updatedData' = MergedData(updatedData, r)
                      /\ pc' = "write"
                      /\ UNCHANGED <<events, files, filesCreated, outcome, remaining>>
                 ELSE /\ written
                      /\ UNCHANGED updatedData
                      /\ Leave(lang, "failed", request, r, "none", FALSE, files)
                      /\ remaining' = AfterFailure(remaining)
    /\ UNCHANGED <<flow, run, file, sourceData, existingData, missingContent,
                   obsoleteKeys, request, log, keyPaths, overlay, result, kind,
                   languages, lang, availableLanguages, refreshed, batches>>

\* fs.writeFile of the update flow resolves or rejects
LoopWriteReturns ==
    /\ pc = "write" /\ kind = "update"
    /\ UNCHANGED <<clientVars, workerVars>>
    /\ \E written \in BOOLEAN :
         IF written
         THEN /\ Leave(lang, "updated", request, response, "done", FALSE,
                       [files EXCEPT ![FileOf(lang)] = Stored(updatedData)])
              /\ UNCHANGED remaining
         ELSE /\ Leave(lang, "failed", request, response, "failed", FALSE, files)
              /\ remaining' = AfterFailure(remaining)
    /\ UNCHANGED <<flow, run, file, sourceData, existingData, missingContent,
                   obsoleteKeys, updatedData, request, response, log, keyPaths,
                   overlay, result, kind, languages, lang, availableLanguages,
                   refreshed, batches>>

\* updateConfigAvailableLanguages: the list becomes the sorted names of the
\* files of the directory, unless the config file is missing, the directory
\* named by the i18nPath read back from it is, or the read or the write of
\* the config file fails
RefreshesRegistry(fs) ==
    /\ refreshed' = TRUE
    /\ \E ok \in BOOLEAN :
         availableLanguages' = IF ok THEN SortedCodes(ExistingLanguages(fs))
                               ELSE availableLanguages

\* the end of the loop of translateFiles and updateLanguageFiles
LoopEnds ==
    /\ pc = "loop" /\ kind \in {"translate", "update"}
    /\ UNCHANGED <<clientVars, workerVars>>
    /\ remaining = <<>>
    /\ IF filesCreated
       THEN RefreshesRegistry(files)
       ELSE UNCHANGED <<refreshed, availableLanguages>>
    /\ pc' = "completed"
    /\ UNCHANGED <<flow, run, file, sourceData, existingData, missingContent,
                   obsoleteKeys, updatedData, request, response, outcome, log,
                   keyPaths, overlay, result, files, kind, languages, remaining,
                   lang, filesCreated, events, batches>>

\* the for loop of removeLanguageFiles over the codes of list, from directory
\* fs and events evs
RECURSIVE RemoveLoop(_, _, _)
RemoveLoop(list, fs, evs) ==
    IF list = <<>> THEN [files |-> fs, events |-> evs]
    ELSE LET l == Head(list)
             Ev(o, after) ==
                 [lang |-> l, outcome |-> o, sent |-> FALSE, payload |-> EmptyTree,
                  status |-> "none", hasData |-> FALSE, answer |-> EmptyTree,
                  write |-> "none", created |-> FALSE,
                  before |-> FileIn(fs, l), after |-> after]
         IN IF l = DefaultLanguage
            THEN RemoveLoop(Tail(list), fs, Append(evs, Ev("skipped_default", FileIn(fs, l))))
            ELSE IF FileIn(fs, l).exists
                 THEN RemoveLoop(Tail(list), [fs EXCEPT ![FileOf(l)] = Absent],
                                 Append(evs, Ev("removed", Absent)))
                 ELSE RemoveLoop(Tail(list), fs, Append(evs, Ev("notfound", FileIn(fs, l))))

\* removeLanguageFiles: the synchronous loop, then the registry refresh
removeLanguageFiles ==
    /\ pc = "ready"
    /\ \E tokens \in TokenLists :
         \E done \in {RemoveLoop([i \in DOMAIN tokens |-> Trim(tokens[i])], files, <<>>)} :
           LET filesRemoved == \E i \in DOMAIN done.events :
                                  done.events[i].outcome = "removed"
           IN /\ BatchStart("remove", tokens)
              /\ files' = done.files
              /\ events' = done.events
              /\ remaining' = <<>>
              /\ filesCreated' = FALSE
              /\ sourceData' = EmptyTree
              /\ IF filesRemoved
                 THEN RefreshesRegistry(done.files)
                 ELSE /\ refreshed' = FALSE
                      /\ UNCHANGED availableLanguages
              /\ pc' = "completed"

\* the process of a batch is over (process.exit, or the return of the
\* command's action); the directory and the config file stay
ProcessEnds ==
    /\ pc \in {"exited", "completed"}
    /\ UNCHANGED <<clientVars, workerVars>>
    /\ batches < MaxBatches
    /\ pc' = "ready"
    /\ kind' = "none"
    /\ languages' = <<>>
    /\ remaining' = <<>>
    /\ lang' = ""
    /\ filesCreated' = FALSE
    /\ refreshed' = FALSE
    /\ events' = <<>>
    /\ sourceData' = EmptyTree
    /\ flow' = "none"
    /\ outcome' = "none"
    /\ request' = NoRequest
    /\ response' = NoResponse
    /\ updatedData' = EmptyTree
    /\ UNCHANGED <<run, file, existingData, missingContent, obsoleteKeys, log,
                   keyPaths, overlay, result, files, availableLanguages, batches>>

NextBatch ==
    \/ translateFiles
    \/ updateLanguageFiles
    \/ removeLanguageFiles
    \/ TranslateLoop
    \/ UpdateLoop
    \/ LoopFetchReturns
    \/ LoopWriteReturns
    \/ LoopEnds
    \/ ProcessEnds

SpecBatch == InitBatch /\ [][NextBatch]_vars

\* the batches under the scheduling of the code: the for loop is straight
\* line code of one process, so a turn that can start does start and the end
\* of the loop is reached; every fetch is taken to resolve or reject, and
\* every fs.writeFile settles. Nothing obliges a user to run another batch.
BatchFairness ==
    /\ WF_vars(TranslateLoop)
    /\ WF_vars(UpdateLoop)
    /\ WF_vars(LoopFetchReturns)
    /\ WF_vars(LoopWriteReturns)
    /\ WF_vars(LoopEnds)

SpecBatchLive == InitBatch /\ [][NextBatch]_vars /\ BatchFairness

\* ------------------------------------------------------------- the worker
\* translateObject of the translation worker, called on one tree of the
\* request; the model API answers each string it is asked about
\* number of keys of the tree (a bound)
MaxObjNodes == 3
\* a string with a template variable, a string with '{{' alone, and a value
\* that is no string, object or array (a number)
TemplateText == "{{n}}"
OpenText == "{{"
NumberValue == "#7"
WorkerValues == {SrcText, TemplateText, OpenText, NumberValue}

\* typeof obj === 'string'
IsString(v) == v # NumberValue
\* obj.includes('{{') && obj.includes('}}'): both values have '{{', the
\* first alone has '}}'
IsTemplate(v) == v \in {TemplateText, OpenText} /\ v \in {TemplateText}

\* the trees of the shape of t with every leaf a value of WorkerValues
RECURSIVE Labelings(_)
Labelings(t) ==
    IF DOMAIN t = {} THEN {EmptyTree}
    ELSE LET k == CHOOSE x \in DOMAIN t : TRUE
             nodes == IF IsTree(t[k])
                      THEN {Tree(x) : x \in Labelings(t[k].tree)}
                      ELSE {Leaf(v) : v \in WorkerValues}
         IN {With(rest, k, nd) : nd \in nodes, rest \in Labelings(Without(t, k))}

WorkerTrees ==
    UNION {Labelings(t) : t \in UNION {TreesBySize(MaxObjNodes, SrcText)[i] :
                                          i \in 1..(MaxObjNodes + 1)}}

\* the strings of t the model API is called for, by their sequence of keys
\* from the root
RECURSIVE CallPaths(_)
CallPaths(t) ==
    UNION { IF IsTree(t[k])
            THEN { <<k>> \o p : p \in CallPaths(t[k].tree) }
            ELSE IF IsString(t[k].leaf) /\ ~IsTemplate(t[k].leaf) THEN { <<k>> } ELSE {} :
            k \in DOMAIN t }

\* what becomes of one call of the model API: a 2xx answer with a
\* translated_text, a 2xx answer with an empty or missing one, and a non-2xx
\* answer, a rejected fetch or a body that is no JSON
Answers == {"translated", "empty", "error"}

\* variant: the string is lost when it is not translated
NoFallback(v) == ""

\* result.result.translated_text || obj, and return obj of the catch
Fallback(v) == v

\* translateObject on a string, a number, or an object
TranslateValue(v, answer) ==
    IF IsString(v)
    THEN IF IsTemplate(v) THEN v
         ELSE IF answer = "translated" THEN NewText ELSE Fallback(v)
    ELSE v

RECURSIVE translateObject(_, _, _)
translateObject(o, path, up) ==
    [k \in DOMAIN o |->
        LET at == path \o <<k>>
        IN IF IsTree(o[k])
           THEN Tree(translateObject(o[k].tree, at, up))
           ELSE Leaf(TranslateValue(o[k].leaf,
                                    IF at \in DOMAIN up THEN up[at] ELSE "none"))]

InitWorker ==
    /\ pc = "called"
    /\ run = 0
    /\ log = <<>>
    /\ file = Absent
    /\ sourceData = EmptyTree
    /\ InitLocals
    /\ NoBatch
    /\ NoClient
    /\ obj \in WorkerTrees
    /\ upstream \in [CallPaths(obj) -> Answers]
    /\ translatedData = EmptyTree

\* translateObject(data, ...) resolves
TranslateObjectReturns ==
    /\ pc = "called"
    /\ translatedData' = translateObject(obj, <<>>, upstream)
    /\ pc' = "returned"
    /\ UNCHANGED <<flow, run, file, sourceData, existingData, missingContent,
                   obsoleteKeys, updatedData, request, response, outcome, log,
                   keyPaths, overlay, result, batchVars, clientVars, obj, upstream>>

NextWorker == TranslateObjectReturns

SpecWorker == InitWorker /\ [][NextWorker]_vars

\* ------------------------------------------------------------- the client
\* the client module from its import on: the initialize call at the end of
\* the module, and callers of setLanguage and getAvailableLanguages
\* number of callers, each making one call (a bound)
MaxCallers == 2
Callers == 1..MaxCallers
\* the codes a caller, the storage item or a load can name, and the default
\* languages a config file can name
ClientCodes == {"en", "es", "fr"}
DefaultCodes == {"en", "es"}
\* the content of the file of language l
TreeOf(l) == (<<"a">> :> Leaf(l))

otherVars == <<flow, run, file, sourceData, existingData, missingContent, obsoleteKeys,
               updatedData, request, response, outcome, log, keyPaths, overlay, result,
               batchVars, workerVars>>
environment == <<window, localStorage, configData, served>>

\* loadLanguage(l): the parsed file, or null when the fetch, the read or the
\* parse fails
loadLanguage(l) == served[l]

\* getSavedLanguage() where it can be read
Saved == IF window = "open" THEN localStorage ELSE NoItem

Idle == [op |-> "none", lang |-> "", at |-> "idle", awaits |-> "nothing"]

InitClient ==
    /\ pc = "import"
    /\ run = 0
    /\ log = <<>>
    /\ file = Absent
    /\ sourceData = EmptyTree
    /\ InitLocals
    /\ NoBatch
    /\ NoWorker
    /\ window \in {"none", "open", "denied"}
    /\ localStorage \in (IF window = "open" THEN ClientCodes \cup {NoItem} ELSE {NoItem})
    /\ configData \in DefaultCodes \cup {"", NoConfig}
    /\ served \in [ClientCodes -> {Null} \cup {Loaded(TreeOf(l)) : l \in ClientCodes}]
    /\ \A l \in ClientCodes : served[l] \in {Null, Loaded(TreeOf(l))}
    /\ config = "en"
    /\ currentLanguage = "en"
    /\ translations = Loaded(EmptyTree)
    /\ isInitialized = FALSE
    /\ initPromise = "null"
    /\ initAt = "none"
    /\ initRuns = 0
    /\ translationTarget = EmptyTree
    /\ callers = [c \in Callers |-> Idle]
    /\ switches = <<>>
    /\ notified = <<>>

\* variant: initialize without the initPromise guard
NeverStarted(p) == FALSE

\* if (initPromise) return initPromise
AlreadyStarted(p) == p # "null"

\* what a call of initialize hands its caller to await
Awaited == IF isInitialized THEN "nothing" ELSE "initPromise"

\* a call of initialize, up to the first await of its async function
initialize ==
    IF isInitialized \/ AlreadyStarted(initPromise)
    THEN UNCHANGED <<initPromise, initAt, initRuns>>
    ELSE /\ initPromise' = "pending"
         /\ initAt' = "config"
         /\ initRuns' = initRuns + 1

\* the module has been evaluated: initialize() at its end
ModuleLoads ==
    /\ pc = "import"
    /\ pc' = "loaded"
    /\ initialize
    /\ UNCHANGED <<environment, config, currentLanguage, translations, isInitialized,
                   translationTarget, callers, switches, notified, otherVars>>

\* the end of the async function of initialize: updateTranslationObject(),
\* isInitialized = true, and the promise is fulfilled
Finishes(tr) ==
    /\ translations' = tr
    /\ translationTarget' = tr.data
    /\ isInitialized' = TRUE
    /\ initPromise' = "fulfilled"
    /\ initAt' = "done"

\* variant: no fallback to 'en'
NeverEnglish(tr, def) == FALSE

\* !translations && config.defaultLanguage !== 'en'
NeedsEnglish(tr, def) == ~tr.ok /\ def # "en"

\* loadConfig resolves; the saved language is read and the first load starts.
\* Where localStorage cannot be read getSavedLanguage throws into the catch.
ConfigLoads ==
    /\ pc = "loaded" /\ initAt = "config"
    /\ config' = IF configData = NoConfig THEN config
                 ELSE IF configData = "" THEN "en" ELSE configData
    /\ IF window = "denied"
       THEN /\ Finishes(Loaded(EmptyTree))
            /\ UNCHANGED currentLanguage
       ELSE /\ currentLanguage' = IF Saved # NoItem THEN Saved ELSE config'
            /\ initAt' = "first"
            /\ UNCHANGED <<translations, translationTarget, isInitialized, initPromise>>
    /\ UNCHANGED <<pc, environment, initRuns, callers, switches, notified, otherVars>>

\* loadLanguage(currentLanguage) resolves
FirstLoadReturns ==
    /\ pc = "loaded" /\ initAt = "first"
    /\ LET r == loadLanguage(currentLanguage)
       IN IF r.ok
          THEN Finishes(r)
          ELSE IF currentLanguage # config \/ NeedsEnglish(r, config)
               THEN /\ translations' = r
                    /\ initAt' = IF currentLanguage # config THEN "default" ELSE "en"
                    /\ UNCHANGED <<translationTarget, isInitialized, initPromise>>
               ELSE Finishes(Loaded(EmptyTree))
    /\ UNCHANGED <<pc, environment, config, currentLanguage, initRuns, callers, switches,
                   notified, otherVars>>

\* loadLanguage(config.defaultLanguage) resolves
DefaultLoadReturns ==
    /\ pc = "loaded" /\ initAt = "default"
    /\ currentLanguage' = config
    /\ LET r == loadLanguage(config)
       IN IF r.ok
          THEN Finishes(r)
          ELSE IF NeedsEnglish(r, config)
               THEN /\ translations' = r
                    /\ initAt' = "en"
                    /\ UNCHANGED <<translationTarget, isInitialized, initPromise>>
               ELSE Finishes(Loaded(EmptyTree))
    /\ UNCHANGED <<pc, environment, config, initRuns, callers, switches, notified,
                   otherVars>>

\* loadLanguage('en') resolves
EnglishLoadReturns ==
    /\ pc = "loaded" /\ initAt = "en"
    /\ currentLanguage' = "en"
    /\ LET r == loadLanguage("en")
       IN Finishes(IF r.ok THEN r ELSE Loaded(EmptyTree))
    /\ UNCHANGED <<pc, environment, config, initRuns, callers, switches, notified,
                   otherVars>>

\* a caller's call of operation op: it runs up to await initialize()
Calls(c, op, l) ==
    /\ callers[c].at = "idle"
    /\ callers' = [callers EXCEPT ![c] = [op |-> op, lang |-> l, at |-> "init",
                                          awaits |-> Awaited]]
    /\ initialize
    /\ UNCHANGED <<pc, environment, config, currentLanguage, translations, isInitialized,
                   translationTarget, switches, notified, otherVars>>

\* setLanguage(lang) is called once the module is imported
setLanguage ==
    \E c \in Callers, l \in ClientCodes :
        /\ pc = "loaded"
        /\ Calls(c, "setLanguage", l)

\* getAvailableLanguages() is called once the module is imported
getAvailableLanguages ==
    \E c \in Callers :
        /\ pc = "loaded"
        /\ Calls(c, "getAvailableLanguages", "")

\* await initialize() is over for caller c: what it awaited is settled
InitializeReturned(c) ==
    /\ pc = "loaded"
    /\ callers[c].at = "init"
    /\ callers[c].awaits = "nothing" \/ initPromise = "fulfilled"

\* setLanguage goes on to loadLanguage(lang)
SetLanguageLoads ==
    \E c \in Callers :
        /\ InitializeReturned(c)
        /\ callers[c].op = "setLanguage"
        /\ callers' = [callers EXCEPT ![c].at = "load"]
        /\ UNCHANGED <<pc, environment, config, currentLanguage, translations,
                       isInitialized, initPromise, initAt, initRuns, translationTarget,
                       switches, notified, otherVars>>

\* getAvailableLanguages returns the list of the config
GetAvailableLanguagesReturns ==
    \E c \in Callers :
        /\ InitializeReturned(c)
        /\ callers[c].op = "getAvailableLanguages"
        /\ callers' = [callers EXCEPT ![c].at = "done"]
        /\ UNCHANGED <<pc, environment, config, currentLanguage, translations,
                       isInitialized, initPromise, initAt, initRuns, translationTarget,
                       switches, notified, otherVars>>

\* variant: the code is left as it was
KeepsCode(cur, l) == cur

\* currentLanguage = lang
AppliedCode(cur, l) == l

Active(cur, tr) == [currentLanguage |-> cur, translations |-> tr]

\* loadLanguage(lang) of setLanguage resolves, and the call runs to its end:
\* with a tree it sets translations and currentLanguage, saves the code
\* (which throws where localStorage cannot be used), updates the target of t
\* and calls the listener
SetLanguageLoadReturns ==
    \E c \in Callers :
        LET l == callers[c].lang
            newTranslations == loadLanguage(l)
            saves == window # "denied"
        IN /\ pc = "loaded"
           /\ callers[c].at = "load"
           /\ callers' = [callers EXCEPT ![c].at = "done"]
           /\ IF newTranslations.ok
              THEN /\ translations' = newTranslations
                   /\ currentLanguage' = AppliedCode(currentLanguage, l)
                   /\ localStorage' = IF window = "open" THEN l ELSE localStorage
                   /\ translationTarget' = IF saves THEN newTranslations.data
                                           ELSE translationTarget
                   /\ notified' = IF saves
                                  THEN Append(notified,
                                              [lang |-> l, translations |-> translations',
                                               currentLanguage |-> currentLanguage'])
                                  ELSE notified
              ELSE UNCHANGED <<translations, currentLanguage, localStorage,
                               translationTarget, notified>>
           /\ switches' = Append(switches,
                                 [lang |-> l, ok |-> newTranslations.ok,
                                  before |-> Active(currentLanguage, translations),
                                  after |-> Active(currentLanguage', translations')])
           /\ UNCHANGED <<pc, window, configData, served, config, isInitialized,
                          initPromise, initAt, initRuns, otherVars>>

NextClient ==
    \/ ModuleLoads
    \/ ConfigLoads
    \/ FirstLoadReturns
    \/ DefaultLoadReturns
    \/ EnglishLoadReturns
    \/ setLanguage
    \/ getAvailableLanguages
    \/ SetLanguageLoads
    \/ GetAvailableLanguagesReturns
    \/ SetLanguageLoadReturns

SpecClient == InitClient /\ [][NextClient]_vars

\* ============================================================ properties
\* the leaves of a tree: <<sequence of keys from the root, text>>
RECURSIVE LeafPaths(_)
LeafPaths(t) ==
    UNION { IF IsTree(t[k])
            THEN { << <<k>> \o e[1], e[2] >> : e \in LeafPaths(t[k].tree) }
            ELSE { << <<k>>, t[k].leaf >> } : k \in DOMAIN t }

\* target t has no structural difference from source s
InSync(s, t) ==
    /\ findMissingContent(s, t, EmptyStr) = EmptyTree
    /\ \A ord \in KeyOrders : findObsoleteContent(s, t, EmptyStr, ord) = <<>>

\* a finished run that updated a loaded tree with a translator response of
\* the shape of the payload it was sent
SuccessfulUpdate(e) ==
    /\ e.outcome = "updated"
    /\ e.before.exists /\ e.before.loadable
    /\ e.sent
    /\ e.shaped

\* a finished run that updated a loaded tree; the translator response, when
\* the run asked for one, had the payload's shape
ShapedUpdate(e) ==
    /\ e.outcome = "updated"
    /\ e.before.exists /\ e.before.loadable
    /\ e.sent => e.shaped

\* the tree the current run found in the language's file
RunTarget == IF pc = "done" THEN log[Len(log)].before.data ELSE file.data

\* C1: after an update that succeeds with a response shaped like its payload,
\* the persisted tree has no missing content and no obsolete key against the
\* source, and the update run that follows it reports "up to date" without a
\* remote call.
C1_SyncInOneRun ==
    \A i \in DOMAIN log :
        SuccessfulUpdate(log[i]) =>
            /\ InSync(sourceData, log[i].after.data)
            /\ (i + 1) \in DOMAIN log =>
                   /\ log[i + 1].outcome = "uptodate"
                   /\ ~log[i + 1].sent

\* C2: a successful update (response shaped like its payload) leaves every
\* key path that is a leaf in both the source and the existing tree in the
\* persisted tree, with the existing tree's text.
C2_KeepsTranslations ==
    \A i \in DOMAIN log :
        ShapedUpdate(log[i]) =>
            \A e \in LeafPaths(log[i].before.data) :
                (\E f \in LeafPaths(sourceData) : f[1] = e[1])
                    => e \in LeafPaths(log[i].after.data)

\* C3: an update run that persists a tree for a loaded tree T persists
\* deepMerge(removeKeys(T, Obsolete), R) when Missing is non-empty and the
\* translator answered with translatedData R, and removeKeys(T, Obsolete) when
\* Missing is empty, Missing and Obsolete being the diff of the source against
\* the T found in the file before the run.
C3_PersistedTree ==
    (pc = "done" /\ flow = "update" /\ outcome = "updated") =>
        LET T == log[Len(log)].before.data
            Missing == findMissingContent(sourceData, T, EmptyStr)
        IN \E ord \in KeyOrders :
              LET Obsolete == findObsoleteContent(sourceData, T, EmptyStr, ord)
              IN /\ Missing # EmptyTree \/ Obsolete # <<>>
                 /\ Missing = EmptyTree => file.data = removeObsoleteKeys(T, Obsolete)
                 /\ (Missing # EmptyTree /\ response.hasData) =>
                        file.data = deepMerge(removeObsoleteKeys(T, Obsolete), response.data)

C3_Witness ==
    /\ pc = "done" /\ flow = "update" /\ outcome = "updated"
    /\ missingContent # EmptyTree /\ obsoleteKeys # <<>>
    /\ response.hasData
    /\ removeObsoleteKeys(existingData, obsoleteKeys) # existingData
    /\ file.data # log[Len(log)].before.data

\* C4: in an update run on a loaded tree T a remote call is made exactly when
\* findMissingContent(S, T) is non-empty, and its payload is exactly that tree.
C4_PayloadIsMissing ==
    flow = "update" =>
        LET Missing == findMissingContent(sourceData, RunTarget, EmptyStr)
        IN /\ request.sent <=> Missing # EmptyTree
           /\ request.sent => request.data = Missing

C4_Witness ==
    /\ flow = "update" /\ pc = "fetch"
    /\ request.sent
    /\ request.data # sourceData

\* C5: removeKeys(T, findObsoleteKeys(S, T)) has no key that S lacks, at any
\* depth that is a tree in both, and keeps every key of T that S has with the
\* same leaf/tree kind.
RECURSIVE NoForeignKey(_, _)
NoForeignKey(s, r) ==
    \A k \in DOMAIN r :
        /\ k \in DOMAIN s
        /\ (IsTree(r[k]) /\ IsTree(s[k])) => NoForeignKey(s[k].tree, r[k].tree)

RECURSIVE KeepsCommonKeys(_, _, _)
KeepsCommonKeys(s, t, r) ==
    \A k \in DOMAIN t \cap DOMAIN s :
        IsTree(t[k]) = IsTree(s[k]) =>
            /\ k \in DOMAIN r
            /\ IsTree(r[k]) = IsTree(t[k])
            /\ IF IsTree(t[k]) THEN KeepsCommonKeys(s[k].tree, t[k].tree, r[k].tree)
               ELSE r[k] = t[k]

C5_PruneObsolete ==
    pc = "pruned" =>
        /\ NoForeignKey(sourceData, updatedData)
        /\ KeepsCommonKeys(sourceData, existingData, updatedData)

\* C6: a path whose walk cannot be completed (an intermediate segment is
\* missing or is not a tree) deletes nothing, and the paths after it are
\* processed as if it were not in the list.
RECURSIVE WalkCompletes(_, _)
WalkCompletes(t, keys) ==
    Len(keys) > 1 =>
        /\ <<Head(keys)>> \in DOMAIN t
        /\ IsTree(t[<<Head(keys)>>])
        /\ WalkCompletes(t[<<Head(keys)>>].tree, Tail(keys))

C6_AbortedPathDeletesNothing ==
    (pc = "removed" /\ keyPaths # <<>> /\ ~WalkCompletes(existingData, Head(keyPaths))) =>
        updatedData = removeObsoleteKeys(existingData, Tail(keyPaths))

\* C7: removeKeys(removeKeys(T, P), P) = removeKeys(T, P) for every tree T and
\* every path list P.
C7_RemoveIdempotent ==
    pc = "removedAgain" => result = updatedData

\* C8: findMissingContent(S, S) is the empty tree and findObsoleteKeys(S, S)
\* is the empty list.
C8_SelfDiffEmpty ==
    pc = "selfdiffed" => (missingContent = EmptyTree /\ obsoleteKeys = <<>>)

C8_Witness ==
    /\ pc = "selfdiffed"
    /\ \E k \in DOMAIN sourceData : IsTree(sourceData[k]) /\ sourceData[k].tree # EmptyTree
    /\ \E k \in DOMAIN sourceData : ~IsTree(sourceData[k])

\* C9: deepMerge(T, {}) = T, deepMerge({}, M) = M, and every key that only the
\* base has, at any depth the merge descends to, is in the result with the
\* base's value.
RECURSIVE BaseOnlyKept(_, _, _)
BaseOnlyKept(base, over, r) ==
    \A k \in DOMAIN base :
        IF k \notin DOMAIN over
        THEN k \in DOMAIN r /\ r[k] = base[k]
        ELSE (IsTree(base[k]) /\ IsTree(over[k])) =>
                 /\ k \in DOMAIN r
                 /\ IsTree(r[k])
                 /\ BaseOnlyKept(base[k].tree, over[k].tree, r[k].tree)

C9_MergeIdentity ==
    pc = "merged" =>
        /\ overlay = EmptyTree => result = existingData
        /\ existingData = EmptyTree => result = overlay
        /\ BaseOnlyKept(existingData, overlay, result)

C9_Witness ==
    /\ pc = "merged"
    /\ \E k \in DOMAIN existingData \cap DOMAIN overlay :
          /\ IsTree(existingData[k]) /\ IsTree(overlay[k])
          /\ DOMAIN existingData[k].tree \ DOMAIN overlay[k].tree # {}
          /\ DOMAIN overlay[k].tree \ DOMAIN existingData[k].tree # {}

\* C10: findMissingContent(S, T) maps a key k of S to S[k] when k is absent
\* from T or S[k] is a tree and T[k] is not, to the recursive result when both
\* are trees and that result is non-empty, and omits k otherwise; so every
\* leaf of the result is a leaf of S, findMissingContent(S, {}) = S and
\* findMissingContent({}, T) = {}.
RECURSIVE IsMissingOf(_, _, _)
IsMissingOf(s, t, r) ==
    /\ DOMAIN r \subseteq DOMAIN s
    /\ \A k \in DOMAIN s :
          IF k \notin DOMAIN t \/ (IsTree(s[k]) /\ ~IsTree(t[k]))
          THEN k \in DOMAIN r /\ r[k] = s[k]
          ELSE IF IsTree(s[k]) /\ IsTree(t[k])
               THEN IF k \in DOMAIN r
                    THEN /\ IsTree(r[k])
                         /\ r[k].tree # EmptyTree
                         /\ IsMissingOf(s[k].tree, t[k].tree, r[k].tree)
                    ELSE IsMissingOf(s[k].tree, t[k].tree, EmptyTree)
               ELSE k \notin DOMAIN r

C10_MissingReference ==
    pc = "diffed" =>
        /\ IsMissingOf(sourceData, existingData, missingContent)
        /\ LeafPaths(missingContent) \subseteq LeafPaths(sourceData)
        /\ existingData = EmptyTree => missingContent = sourceData
        /\ sourceData = EmptyTree => missingContent = EmptyTree

C10_Witness ==
    /\ pc = "diffed"
    /\ \E k \in DOMAIN missingContent :
          /\ IsTree(missingContent[k])
          /\ k \in DOMAIN existingData
          /\ IsTree(existingData[k])
          /\ existingData[k].tree # EmptyTree

\* C11: findObsoleteKeys(S, T) lists the dotted path of a key path exactly
\* when its last key k is in T and absent from S, or T[k] is a tree and S[k]
\* is not, every key above it being a tree on both sides; each such key path
\* is listed once, no key path below a listed one is listed, and a key that
\* is a leaf in T and present in S is not listed.
RECURSIVE ObsoleteRef(_, _)
ObsoleteRef(s, t) ==
    { <<k>> : k \in { x \in DOMAIN t :
                        IF x \in DOMAIN s
                        THEN IsTree(t[x]) /\ ~IsTree(s[x])
                        ELSE TRUE } }
    \cup UNION { { <<k>> \o p : p \in ObsoleteRef(s[k].tree, t[k].tree) } :
                    k \in { x \in DOMAIN t \cap DOMAIN s :
                               IsTree(t[x]) /\ IsTree(s[x]) } }

\* the dot-joined external form of a key path
RECURSIVE Dotted(_)
Dotted(p) == IF Len(p) = 1 THEN Head(p) ELSE Head(p) \o Dotted(Tail(p))

IsStrictPrefix(p, q) == Len(p) < Len(q) /\ SubSeq(q, 1, Len(p)) = p

C11_ObsoleteReference ==
    pc = "diffed" =>
        LET ref == ObsoleteRef(sourceData, existingData)
            listed == { obsoleteKeys[i] : i \in DOMAIN obsoleteKeys }
        IN /\ listed = { Dotted(p) : p \in ref }
           /\ Len(obsoleteKeys) = Cardinality(ref)
           /\ \A p, q \in ref : ~IsStrictPrefix(p, q)
           /\ \A k \in DOMAIN existingData :
                 /\ k \notin DOMAIN sourceData => k \in listed
                 /\ (k \in DOMAIN sourceData /\ IsTree(existingData[k])
                        /\ ~IsTree(sourceData[k])) => k \in listed
                 /\ (k \in DOMAIN sourceData /\ ~IsTree(existingData[k])) => <<k>> \notin ref
           /\ sourceData = EmptyTree => Len(obsoleteKeys) = Cardinality(DOMAIN existingData)
           /\ existingData = EmptyTree => obsoleteKeys = <<>>

C11_Witness ==
    /\ pc = "diffed"
    /\ \E p \in ObsoleteRef(sourceData, existingData) :
          /\ Len(p) = 2
          /\ Dotted(p) \in { obsoleteKeys[i] : i \in DOMAIN obsoleteKeys }
    /\ \E k \in DOMAIN existingData \cap DOMAIN sourceData : IsTree(sourceData[k])

\* the languages the loop of the batch has left, in order
Processed == [i \in DOMAIN events |-> events[i].lang]
\* the languages the loop has started on, in order
Started == IF pc \in {"fetch", "write"} THEN Append(Processed, lang) ELSE Processed

\* C12: in a translate batch a language whose file exists when the loop comes
\* to it ends as skipped, with no remote call, no write, its file unchanged
\* and not counted as created; a call in flight is for a language without a
\* file, and the batch counts a file as created only for such a language.
C12_CreateSkipsExisting ==
    kind = "translate" =>
        /\ \A i \in DOMAIN events :
              events[i].before.exists =>
                  /\ events[i].outcome = "skipped"
                  /\ ~events[i].sent
                  /\ events[i].write = "none"
                  /\ events[i].after = events[i].before
                  /\ ~events[i].created
        /\ request.sent => ~FileIn(files, lang).exists \/ pc = "loop" \/ pc = "completed"
        /\ filesCreated =>
              \E i \in DOMAIN events : events[i].created /\ ~events[i].before.exists

C12_Witness ==
    /\ kind = "translate" /\ pc = "completed"
    /\ \E i, j \in DOMAIN events :
          /\ i < j
          /\ events[i].outcome = "created"
          /\ events[j].outcome = "skipped" /\ events[j].before.loadable
    /\ filesCreated

\* C13: in a translate or update batch a language whose fetch rejects, whose
\* response is not 2xx or whose write fails ends as failed with its file
\* unchanged, and the loop goes on: the languages left, the one in progress and
\* the ones still to visit are always the whole de-duplicated list, and the
\* completed batch has left every one of them.
C13_Isolation ==
    kind \in {"translate", "update"} =>
        /\ \A i \in DOMAIN events :
              (events[i].status \in {"http_error", "network_error"}
                  \/ events[i].write = "failed") =>
                  /\ events[i].outcome = "failed"
                  /\ events[i].after = events[i].before
        /\ pc \in {"loop", "fetch", "write", "completed"} =>
              Started \o remaining = UniqueLanguages(parseLanguages(languages))
        /\ pc = "completed" =>
              /\ remaining = <<>>
              /\ \A i \in DOMAIN events :
                    events[i].outcome \in {"created", "updated", "uptodate", "skipped",
                                           "skipped_default", "failed"}

C13_Witness ==
    /\ kind = "update" /\ pc = "completed"
    /\ Len(events) = 2
    /\ events[1].outcome = "failed"
    /\ events[1].status \in {"http_error", "network_error"}
    /\ events[2].outcome = "updated"

\* C14: a 2xx response without translatedData ends the language as failed,
\* with the file as it was before the run.
C14_MalformedIsFailure ==
    (pc = "done" /\ response.status = "ok" /\ ~response.hasData) =>
        /\ outcome = "failed"
        /\ file = log[Len(log)].before

\* the file the current run found
RunFile == IF pc = "done" THEN log[Len(log)].before ELSE file

\* C15: an update run that finds a file it cannot load calls the translator
\* with all of the source and, when the call and the write succeed, persists
\* the response as the language's tree.
C15_UnloadableRecreated ==
    (pc \in {"fetch", "done"} /\ RunFile = Unloadable) =>
        /\ request.sent
        /\ request.data = sourceData
        /\ (pc = "done" /\ outcome # "failed") =>
              /\ outcome = "created"
              /\ file = Stored(response.data)

\* C16: a translate or update batch whose source file is missing or does not
\* load ends before the loop: no language is visited, no remote call is made,
\* no file is written and the registry is not refreshed.
C16_MissingSourceFatal ==
    (kind \in {"translate", "update"} /\ ~files[DefaultLanguage].loadable) =>
        /\ pc = "exited"
        /\ events = <<>>
        /\ ~request.sent
        /\ ~refreshed
        /\ ~filesCreated

C16_Witness ==
    /\ kind = "update" /\ pc = "exited"
    /\ files[DefaultLanguage] = Unloadable
    /\ Len(remaining) = 2
    /\ \E i \in DOMAIN remaining : ~FileIn(files, remaining[i]).exists
    /\ batches = 2

\* C17: whatever lists the batches are handed, no language whose file is the
\* default language's file has it written or deleted, and no remote call is
\* made for it.
C17_DefaultUntouched ==
    /\ \A i \in DOMAIN events :
          FileOf(events[i].lang) = DefaultLanguage =>
              /\ events[i].after = events[i].before
              /\ ~events[i].sent
              /\ events[i].write = "none"
    /\ (pc = "fetch" \/ pc = "write") => FileOf(lang) # DefaultLanguage

\* C18: in an update batch a language other than the default one that has no
\* file is handed to the create flow: one call with all of the source; when
\* the response is 2xx with translatedData and the write succeeds, the file
\* holds that translatedData, the language ends as created, and the completed
\* batch has refreshed the registry.
C18_UpdateDelegatesToCreate ==
    kind = "update" =>
        /\ (pc = "fetch" /\ ~FileIn(files, lang).exists) =>
              /\ flow = "create"
              /\ request.sent
              /\ request.data = sourceData
        /\ \A i \in DOMAIN events :
              (events[i].lang # DefaultLanguage /\ ~events[i].before.exists) =>
                  /\ events[i].sent
                  /\ events[i].payload = sourceData
                  /\ IF events[i].status = "ok" /\ events[i].hasData
                        /\ events[i].write = "done"
                     THEN /\ events[i].outcome = "created"
                          /\ events[i].after = Stored(events[i].answer)
                          /\ events[i].created
                          /\ filesCreated
                          /\ pc = "completed" => refreshed
                     ELSE /\ events[i].outcome = "failed"
                          /\ events[i].after = events[i].before
                          /\ ~events[i].created

C18_Witness ==
    /\ kind = "update" /\ pc = "completed"
    /\ refreshed
    /\ \E i \in DOMAIN events :
          /\ events[i].outcome = "created"
          /\ ~events[i].before.exists
          /\ events[i].after.data # EmptyTree
    /\ \E i \in DOMAIN events : events[i].outcome = "updated"

\* C19: in an update batch a language whose loaded tree has no missing
\* content and no obsolete key against the source ends as up to date, with no
\* remote call and no write of its file; a run that calls or writes has found
\* a difference.
C19_UpToDate ==
    kind = "update" =>
        /\ \A i \in DOMAIN events :
              (events[i].lang # DefaultLanguage /\ events[i].before.loadable) =>
                  IF InSync(sourceData, events[i].before.data)
                  THEN /\ events[i].outcome = "uptodate"
                       /\ ~events[i].sent
                       /\ events[i].write = "none"
                       /\ events[i].after = events[i].before
                  ELSE events[i].outcome # "uptodate"
        /\ (pc \in {"fetch", "write"} /\ flow = "update") =>
              ~InSync(sourceData, FileIn(files, lang).data)

C19_Witness ==
    /\ kind = "update" /\ pc = "completed"
    /\ \E i \in DOMAIN events :
          /\ events[i].outcome = "uptodate"
          /\ events[i].lang = "fr"
          /\ Cardinality(DOMAIN events[i].before.data) = 2
    /\ \E i \in DOMAIN events : events[i].outcome = "updated"

\* C20: in a translate or update batch the languages the loop starts on are,
\* in order, the distinct codes of the supplied list by first occurrence, each
\* once; while a call or a write is pending for one language every language
\* before it has its outcome and none after it has been started.
FirstIndex(arr, code) == CHOOSE i \in DOMAIN arr : arr[i] = code /\ \A j \in 1..(i - 1) : arr[j] # code

IsFirstOccurrences(u, arr) ==
    /\ { u[i] : i \in DOMAIN u } = { arr[i] : i \in DOMAIN arr }
    /\ \A i, j \in DOMAIN u : i < j =>
          /\ u[i] # u[j]
          /\ FirstIndex(arr, u[i]) < FirstIndex(arr, u[j])

C21_RefreshIffCreated ==
    kind \in {"translate", "update"} =>
        /\ pc \in {"loop", "fetch", "write", "exited"} => ~refreshed
        /\ pc = "completed" =>
              (refreshed <=> \E i \in DOMAIN events : events[i].outcome = "created")
        /\ refreshed =>
              /\ remaining = <<>>
              /\ Processed = UniqueLanguages(parseLanguages(languages))

C21_Witness ==
    /\ kind = "update" /\ pc = "completed"
    /\ refreshed
    /\ Len(events) = 2
    /\ events[1].outcome = "created"
    /\ events[2].outcome \in {"updated", "failed", "uptodate"}

\* C22: once a batch has completed, and between batches, the registry is the
\* sorted list of the codes that have a file.
C22_RegistryInSync ==
    pc \in {"ready", "completed"} =>
        availableLanguages = SortedCodes(ExistingLanguages(files))

\* C23: in a translate or update batch no language is visited twice, so the
\* remote calls made are at most one for each de-duplicated language; a
\* language that ended as failed is neither the one a call is pending for nor
\* among the languages still to visit.
C23_NoRetry ==
    kind \in {"translate", "update"} =>
        /\ \A i, j \in DOMAIN events : events[i].lang = events[j].lang => i = j
        /\ Cardinality({i \in DOMAIN events : events[i].sent})
              + (IF pc = "fetch" THEN 1 ELSE 0)
              <= Len(UniqueLanguages(parseLanguages(languages)))
        /\ \A i \in DOMAIN events :
              events[i].outcome = "failed" =>
                  /\ pc \in {"fetch", "write"} => lang # events[i].lang
                  /\ \A k \in DOMAIN remaining : remaining[k] # events[i].lang

C23_Witness ==
    /\ kind = "translate" /\ pc = "completed"
    /\ languages = <<"es", " es">>
    /\ Len(events) = 1
    /\ events[1].outcome = "failed"
    /\ events[1].sent
    /\ events[1].status = "network_error"

\* C27: in the update flow, while the call is pending the file still holds
\* the tree that was loaded, and a call that is rejected or answered with a
\* non-2xx status ends the language as failed with the file exactly as the
\* run found it: the tree pruned in memory is not written.
C27_FailedUpdateUntouched ==
    /\ (pc = "fetch" /\ flow = "update") => file = Stored(existingData)
    /\ (pc = "done" /\ flow = "update"
          /\ response.status \in {"http_error", "network_error"}) =>
          /\ outcome = "failed"
          /\ file = log[Len(log)].before
          /\ file = Stored(existingData)

C27_Witness ==
    /\ pc = "done" /\ flow = "update"
    /\ response.status = "http_error"
    /\ outcome = "failed"
    /\ obsoleteKeys # <<>>
    /\ updatedData # existingData
    /\ file = Stored(existingData)

\* the completed batch has one event for each de-duplicated language, in
\* order, each with a terminal outcome
OneOutcomeEach ==
    /\ pc = "completed"
    /\ Processed = UniqueLanguages(parseLanguages(languages))
    /\ \A i, j \in DOMAIN events : events[i].lang = events[j].lang => i = j
    /\ \A i \in DOMAIN events :
          events[i].outcome \in {"created", "updated", "skipped", "skipped_default",
                                 "failed", "uptodate"}

\* C28: when every fetch and every write settles, a translate or update
\* batch whose source file has loaded (the loop has been entered) eventually
\* completes with exactly one terminal outcome for each de-duplicated
\* language.
C28_BatchTerminates ==
    (kind \in {"translate", "update"} /\ pc \in {"loop", "fetch", "write"}) ~> OneOutcomeEach

C28_Witness ==
    /\ kind = "translate" /\ OneOutcomeEach
    /\ Len(events) = 2
    /\ events[1].outcome = "failed" /\ events[1].status = "http_error"
    /\ events[2].outcome = "created"
    /\ batches = 2

\* C28 as stated: every translate or update batch, whatever the state of its
\* source file, eventually completes with one outcome for each language.
C28_EveryBatchCompletes ==
    (kind \in {"translate", "update"}) ~> OneOutcomeEach

\* C26: the tree translateObject returns has the keys and the nesting of its
\* input at every level; a string with a template variable, a string whose
\* call failed or came back empty, and a value that is no string are returned
\* as they were, and a string whose call succeeded is replaced by a string.
C26_SameStructure ==
    pc = "returned" =>
        /\ SameShape(translatedData, obj)
        /\ { e[1] : e \in LeafPaths(translatedData) } = { e[1] : e \in LeafPaths(obj) }
        /\ \A e \in LeafPaths(obj) :
              IF e[1] \in DOMAIN upstream /\ upstream[e[1]] = "translated"
              THEN <<e[1], NewText>> \in LeafPaths(translatedData)
              ELSE e \in LeafPaths(translatedData)

C26_Witness ==
    /\ pc = "returned"
    /\ \E k \in DOMAIN obj : IsTree(obj[k])
    /\ \E e \in LeafPaths(obj) : e[2] = TemplateText
    /\ \E p \in DOMAIN upstream : upstream[p] = "error" /\ Len(p) = 2
    /\ translatedData = obj

\* C24: after a setLanguage whose file did not load, when the default
\* language's file loads, the current language is the default language and
\* the translations are the default language's.
C24_FallsBackToDefault ==
    \A i \in DOMAIN switches :
        (~switches[i].ok /\ served[config].ok) =>
            switches[i].after = Active(config, served[config])

\* the languages initialize tries, in order: the saved one, the default one,
\* 'en'
Chain == (IF Saved # NoItem THEN <<Saved>> ELSE <<>>) \o <<config, "en">>
SomeLoads == \E i \in DOMAIN Chain : served[Chain[i]].ok
FirstLoaded ==
    Chain[CHOOSE i \in DOMAIN Chain :
              /\ served[Chain[i]].ok
              /\ \A j \in 1..(i - 1) : ~served[Chain[j]].ok]

\* initialize has completed and no setLanguage has returned since
JustInitialized == isInitialized /\ switches = <<>>

\* translations and currentLanguage are those of the first language of the
\* chain that loads, or translations is the empty object when none does
FollowsChain ==
    IF SomeLoads
    THEN /\ translations = served[FirstLoaded]
         /\ currentLanguage = FirstLoaded
    ELSE translations = Loaded(EmptyTree)

\* C25: whenever initialize has completed, translations is not null and is
\* the tree of the first language that loads among the saved one, the default
\* one and 'en', with currentLanguage the code of that language, or the empty
\* object when none loads.
C25_ChainAlways ==
    /\ isInitialized => translations.ok
    /\ JustInitialized => FollowsChain

C30_SingleFlight ==
    /\ initRuns <= 1
    /\ \A c \in Callers : callers[c].at \in {"load", "done"} => isInitialized
    /\ isInitialized => initAt = "done" /\ initPromise = "fulfilled"
    /\ pc = "loaded" => initRuns = 1

C30_Witness ==
    /\ initRuns = 1
    /\ callers[1].at = "done" /\ callers[1].awaits = "initPromise"
    /\ callers[1].op = "getAvailableLanguages"
    /\ callers[2].at = "load" /\ callers[2].awaits = "nothing"

====
